---- MODULE Spec2Model ----
(***************************************************************************)
(* Model of cotede/anomaly_detection.py: the partitioner                   *)
(* (split_data_groups), the anomaly scorer (estimate_anomaly), the         *)
(* threshold optimizer (estimate_p_optimal), the calibration orchestrator  *)
(* (calibrate4flags) and the human refinement loop                         *)
(* (human_calibrate_mistakes).                                             *)
(*                                                                         *)
(* Conventions.  Rows are numbered 1..N (numpy numbers them 0..N-1).  A    *)
(* numpy boolean index array is the set of rows where it is True.  A       *)
(* masked entry of a flag or feature sequence is the value Masked.  Log    *)
(* probabilities and thresholds are integers counted in units of 0.05, so  *)
(* that the 0.1 step of the threshold grid is GridStep = 2 units and a     *)
(* score may fall between two grid points; arithmetic is exact.  The       *)
(* source is Python 2 (print statements, dict.keys()[0]): round() rounds   *)
(* halves away from zero.                                                  *)
(***************************************************************************)
EXTENDS Integers, Sequences, FiniteSets, TLC

VARIABLES
    pc,             \* position of the modelled call / its outcome
    flag,           \* split_data_groups: the flag sequence given
    indices,        \* {'fit', 'test', 'err'} index sets
    features,       \* feature table: name -> sequence of values or Masked
    params,         \* fitted parameters: name -> [param, qlimit]
    method,         \* estimate_anomaly: combination method
    prob,           \* anomaly score per row
    binflag,        \* boolean label per row: "true", "false" or "masked"
    p_optimal,      \* threshold returned by estimate_p_optimal
    test_err,       \* error rate returned by estimate_p_optimal, <<num, den>>
    flags,          \* flag table: test name -> sequence of codes or Masked
    false_negative, \* masked boolean per row
    false_positive, \* masked boolean per row
    n_err,          \* mistakes counted in the err group
    err_ratio,      \* n_err / size of the err group, <<num, den>>
    data,           \* data['profileid']: the profile of each row
    niter,          \* human_calibrate_mistakes: number of iterations asked
    iter,           \* the loop variable i: iterations completed so far
    doubt,          \* rows the reviewer marked doubt
    mistake,        \* false_positive | false_negative, masked boolean
    profileids,     \* profiles still to present in the current iteration
    error_log       \* sequence of {'err', 'err_ratio', 'p_optimal'}

splitVars == <<flag, indices>>

scoreVars == <<features, params, method, prob>>

optVars == <<binflag, p_optimal, test_err>>

calibVars == <<flags, false_negative, false_positive, n_err, err_ratio>>

loopVars == <<data, niter, iter, doubt, mistake, profileids, error_log>>

vars == <<pc, splitVars, scoreVars, optVars, calibVars, loopVars>>

----------------------------------------------------------------------------
(* Bounds of the model.                                                    *)

MaxRows == 4

MaxScoreRows == 2

MaxVal == 2

MaxOptRows == 3

MaxScore == 5

MaxCalRows == 4

MaxCalVal == 1

MaxIter == 2

----------------------------------------------------------------------------
(* Generic helpers.                                                        *)

\* A masked (missing) entry of a masked array.
Masked == -1

\* Value of a variable that the modelled call has not assigned.
None == <<>>

\* The variables of the functions that a specification does not call.
UnusedSplit == flag = None /\ indices = None

UnusedScore == features = None /\ params = None /\ method = None /\ prob = None

UnusedOpt == binflag = None /\ p_optimal = None /\ test_err = None

UnusedCalib ==
    /\ flags = None /\ false_negative = None /\ false_positive = None
    /\ n_err = None /\ err_ratio = None

UnusedLoop ==
    /\ data = None /\ niter = None /\ iter = None /\ doubt = None
    /\ mistake = None /\ profileids = None /\ error_log = None

RECURSIVE permutation(_)
\* numpy.random.permutation: every ordering of the members of S.
permutation(S) ==
    IF S = {} THEN {<<>>}
    ELSE UNION {{<<x>> \o p : p \in permutation(S \ {x})} : x \in S}

RECURSIVE NonZero(_, _)
\* np.nonzero(b)[0] for b given as a set of rows of 1..n: the rows in
\* ascending order.
NonZero(S, n) ==
    IF n = 0 THEN <<>>
    ELSE IF n \in S THEN Append(NonZero(S, n - 1), n) ELSE NonZero(S, n - 1)

\* int(round(num/den)) for num >= 0, den > 0: Python 2 rounds a half away
\* from zero.
PyRound(num, den) == (2 * num + den) \div (2 * den)

\* seq[a:b] of Python as the set of its members (0-based half-open slice).
SliceSet(seq, a, b) ==
    {seq[k] : k \in {j \in 1..Len(seq) : a < j /\ j <= b}}

----------------------------------------------------------------------------
(* flags2bin and split_data_groups.                                        *)

good_flags == {1, 2}

bad_flags == {3, 4}

\* The codes a flag sequence may hold: the four quality codes, 0 (not
\* evaluated, an "other" code) and a masked entry.
FlagCodes == {Masked, 0, 1, 2, 3, 4}

\* output = ma.masked_all(N); output[flags == f] = True for the good codes,
\* then output[flags == f] = False for the bad codes (a later assignment
\* wins).  A masked flag matches no code.
flags2bin(f) ==
    [r \in 1..Len(f) |->
        IF f[r] # Masked /\ f[r] \in bad_flags THEN "false"
        ELSE IF f[r] # Masked /\ f[r] \in good_flags THEN "true"
        ELSE "masked"]

\* The good rows and the bad rows of a flag sequence, as split_data_groups
\* computes them (ind, ind_valid, ind_good, ind_bad).
GoodRows(f) ==
    {r \in 1..Len(f) : f[r] # Masked /\ f[r] \in good_flags \ bad_flags}

BadRows(f) == {r \in 1..Len(f) : f[r] # Masked /\ f[r] \in bad_flags}

\* Mutant: the error group of the good rows starts one position too early,
\* overlapping the test group.
split_data_groups_overlap(f, perm_good, perm_bad) ==
    LET ind_good == NonZero(GoodRows(f), Len(f))
        N_good   == Len(ind_good)
        N_test   == PyRound(N_good * 2, 10)
        good     == [k \in 1..N_good |-> ind_good[perm_good[k]]]
        ind_bad  == NonZero(BadRows(f), Len(f))
        N_bad    == Len(ind_bad)
        N_testb  == PyRound(N_bad * 5, 10)
        bad      == [k \in 1..N_bad |-> ind_bad[perm_bad[k]]]
    IN  [fit  |-> SliceSet(good, 2 * N_test, N_good),
         test |-> SliceSet(good, 0, N_test) \cup SliceSet(bad, 0, N_testb),
         err  |-> SliceSet(good, N_test - 1, 2 * N_test)
                     \cup SliceSet(bad, N_testb, N_bad)]

\* Mutant: the bad rows left over after the test group go to fit instead of
\* err.
split_data_groups_badfit(f, perm_good, perm_bad) ==
    LET ind_good == NonZero(GoodRows(f), Len(f))
        N_good   == Len(ind_good)
        N_test   == PyRound(N_good * 2, 10)
        good     == [k \in 1..N_good |-> ind_good[perm_good[k]]]
        ind_bad  == NonZero(BadRows(f), Len(f))
        N_bad    == Len(ind_bad)
        N_testb  == PyRound(N_bad * 5, 10)
        bad      == [k \in 1..N_bad |-> ind_bad[perm_bad[k]]]
    IN  [fit  |-> SliceSet(good, 2 * N_test, N_good)
                     \cup SliceSet(bad, N_testb, N_bad),
         test |-> SliceSet(good, 0, N_test) \cup SliceSet(bad, 0, N_testb),
         err  |-> SliceSet(good, N_test, 2 * N_test)]

\* split_data_groups(flag) for the two permutations it draws.  perm_good
\* and perm_bad are permutations of 1..N_good and 1..N_bad.
split_data_groups(f, perm_good, perm_bad) ==
    LET ind_good == NonZero(GoodRows(f), Len(f))
        N_good   == Len(ind_good)
        N_test   == PyRound(N_good * 2, 10)
        good     == [k \in 1..N_good |-> ind_good[perm_good[k]]]
        ind_bad  == NonZero(BadRows(f), Len(f))
        N_bad    == Len(ind_bad)
        N_testb  == PyRound(N_bad * 5, 10)
        bad      == [k \in 1..N_bad |-> ind_bad[perm_bad[k]]]
    IN  [fit  |-> SliceSet(good, 2 * N_test, N_good),
         test |-> SliceSet(good, 0, N_test) \cup SliceSet(bad, 0, N_testb),
         err  |-> SliceSet(good, N_test, 2 * N_test)
                     \cup SliceSet(bad, N_testb, N_bad)]

\* All flag sequences of length 0..n.
FlagSeqs(n) == UNION {[1..k -> FlagCodes] : k \in 0..n}

\* A call of split_data_groups waiting to run on some flag sequence.
InitSplit ==
    /\ pc = "split"
    /\ flag \in FlagSeqs(MaxRows)
    /\ indices = None
    /\ UnusedScore /\ UnusedOpt /\ UnusedCalib /\ UnusedLoop

\* The call runs: it draws its two permutations and returns the three
\* index sets.  The only check of the function is that flag is not of
\* boolean type, which holds of every flag sequence here.
SplitDataGroups ==
    /\ pc = "split"
    /\ \E perm_good \in permutation(1..Cardinality(GoodRows(flag))),
          perm_bad \in permutation(1..Cardinality(BadRows(flag))) :
          indices' = split_data_groups(flag, perm_good, perm_bad)
    /\ pc' = "split_returned"
    /\ UNCHANGED <<flag, scoreVars, optVars, calibVars, loopVars>>

NextSplit == SplitDataGroups

SpecSplit == InitSplit /\ [][NextSplit]_vars

----------------------------------------------------------------------------
(* Claims about split_data_groups.                                         *)

\* C1: the three index sets returned by split_data_groups are pairwise
\* disjoint, and their union is exactly the set of rows whose label is not
\* missing (code in the good or in the bad set); a row with a missing
\* label is in none of them.
C1_PartitionDisjointExhaustive ==
    pc = "split_returned" =>
        /\ indices.fit \cap indices.test = {}
        /\ indices.fit \cap indices.err = {}
        /\ indices.test \cap indices.err = {}
        /\ indices.fit \cup indices.test \cup indices.err
              = {r \in 1..Len(flag) : flag[r] \in {1, 2, 3, 4}}
        /\ \A r \in 1..Len(flag) :
              flag[r] \notin {1, 2, 3, 4} =>
                 r \notin indices.fit \cup indices.test \cup indices.err

\* C1 witness: a returned partition of a sequence that mixes good, bad,
\* other and masked entries, with every group non-empty.
C1_Witness ==
    /\ pc = "split_returned"
    /\ \E r \in 1..Len(flag) : flag[r] = Masked
    /\ \E r \in 1..Len(flag) : flag[r] \in bad_flags
    /\ indices.fit # {} /\ indices.test # {} /\ indices.err # {}

\* C2: with G good and B bad rows, test holds exactly round(0.2 G) good
\* rows, err holds exactly round(0.2 G) good rows, fit holds all the other
\* good rows and no bad row, test holds exactly round(0.5 B) bad rows and
\* err the other bad rows.
C2_PartitionProportions ==
    pc = "split_returned" =>
        LET good == {r \in 1..Len(flag) : flag[r] \in {1, 2}}
            bad  == {r \in 1..Len(flag) : flag[r] \in {3, 4}}
            G    == Cardinality(good)
            B    == Cardinality(bad)
            \* round(0.2 G): the integer n with |n - G/5| < 1/2
            rG   == CHOOSE n \in 0..G : 10 * n - 5 < 2 * G /\ 2 * G < 10 * n + 5
            \* round(0.5 B): B/2, a half rounding up
            rB   == CHOOSE n \in 0..B : 2 * n = B \/ 2 * n = B + 1
        IN  /\ Cardinality(indices.test \cap good) = rG
            /\ Cardinality(indices.err \cap good) = rG
            /\ indices.fit = good \ (indices.test \cup indices.err)
            /\ indices.fit \cap bad = {}
            /\ Cardinality(indices.test \cap bad) = rB
            /\ indices.err \cap bad = bad \ indices.test
            /\ Cardinality(indices.fit)
                  = G - Cardinality(indices.test \cap good)
                      - Cardinality(indices.err \cap good)

\* C2 witness: a returned partition where the good rows feed all three
\* groups and an odd number of bad rows is split.
C2_Witness ==
    /\ pc = "split_returned"
    /\ Cardinality(GoodRows(flag)) >= 3
    /\ Cardinality(BadRows(flag)) = 1
    /\ indices.test \cap GoodRows(flag) # {}
    /\ indices.err \cap GoodRows(flag) # {}
    /\ indices.test \cap BadRows(flag) # {}

\* C7: split_data_groups fails, instead of returning a partition, when the
\* flag sequence is empty or has no entry with a good or a bad code.
C7_FailsWithoutValidLabel ==
    (Len(flag) = 0 \/ GoodRows(flag) \cup BadRows(flag) = {})
        => pc # "split_returned"

----------------------------------------------------------------------------
(* estimate_anomaly.                                                       *)

\* The names of the features (QC tests) of a feature table.
FeatureNames == {"gradient", "spike"}

\* The order in which a loop over the keys of a dict visits them.
KeyOrder == <<"gradient", "spike">>

\* The feature values: 0..MaxVal, or a masked entry.
ValueSet == 0..MaxVal \cup {Masked}

\* The fitted parameter vectors told apart: the location of the tail
\* distribution (its shapes and scale are held fixed).
ParamSet == {0, 1}

\* log(0): the logarithm of a survival probability that underflowed to 0.
NegInf == -100000

\* log(1e-15), in units of 0.05: -34.539 / 0.05.
LogFloor == -691

\* The distance above the location at which the survival probability is 0
\* in floating point.
UnderflowAt == 2

\* The logarithm of exponweib.sf(x, *param[:-2], loc, scale): 1 up to the
\* location, decreasing above it (by 0.35 per unit) and 0 from UnderflowAt
\* on.
exponweib_logsf(x, param) ==
    IF x <= param THEN 0
    ELSE IF x - param >= UnderflowAt THEN NegInf
    ELSE -(7 * (x - param))

\* tmp[tmp == 0] = 1e-15; p = ma.log(tmp): the log-survival-probability of
\* one non-masked value.
LogSurvival(x, param) ==
    IF exponweib_logsf(x, param) = NegInf THEN LogFloor
    ELSE exponweib_logsf(x, param)

\* Number of rows of a feature table: len(features[features.keys()[0]]).
NRows(feat) == Len(feat[KeyOrder[1]])

\* ind = ~ma.getmaskarray(features[t]): the rows where feature t is present.
Present(feat, t) == {r \in 1..Len(feat[t]) : feat[t][r] # Masked}

\* Mutant: the product method overwrites the running score instead of
\* adding to it.
LoopBody_overwrite(acc, feat, par, meth, t) ==
    LET ind == Present(feat, t)
        p   == [r \in ind |-> LogSurvival(feat[t][r], par[t].param)]
    IN  IF meth = "produtorium"
        THEN [st |-> "ok",
              prob |-> [r \in 1..Len(acc.prob) |->
                          IF r \in ind THEN p[r] ELSE acc.prob[r]]]
        ELSE [st |-> "none", prob |-> acc.prob]

\* One pass of the loop over params.keys() (lines 101-116) on the running
\* score acc.prob.  The min method calls the builtin min on two arrays: it
\* takes the truth value of the array p < prob[ind], which raises
\* ValueError when the array has more than one element, selects p or
\* prob[ind] whole when it has one, and is False when it has none.  Any
\* other method returns None.
LoopBody(acc, feat, par, meth, t) ==
    LET ind == Present(feat, t)
        p   == [r \in ind |-> LogSurvival(feat[t][r], par[t].param)]
    IN  IF meth = "produtorium"
        THEN [st |-> "ok",
              prob |-> [r \in 1..Len(acc.prob) |->
                          IF r \in ind THEN acc.prob[r] + p[r]
                          ELSE acc.prob[r]]]
        ELSE IF meth = "min"
        THEN IF Cardinality(ind) > 1
             THEN [st |-> "raised", prob |-> acc.prob]
             ELSE [st |-> "ok",
                   prob |-> [r \in 1..Len(acc.prob) |->
                               IF r \in ind /\ p[r] < acc.prob[r] THEN p[r]
                               ELSE acc.prob[r]]]
        ELSE [st |-> "none", prob |-> acc.prob]

RECURSIVE LoopOverKeys(_, _, _, _, _)
\* The loop over params.keys() from the k-th key on; a return or a raise
\* inside the body ends it.
LoopOverKeys(acc, feat, par, meth, k) ==
    IF acc.st # "ok" \/ k > Len(KeyOrder) THEN acc
    ELSE IF KeyOrder[k] \notin DOMAIN par
    THEN LoopOverKeys(acc, feat, par, meth, k + 1)
    ELSE LoopOverKeys(LoopBody(acc, feat, par, meth, KeyOrder[k]),
                      feat, par, meth, k + 1)

\* estimate_anomaly(features, params, method): st is "ok" when an array is
\* returned (prob), "none" when None is returned, "raised" on an exception.
estimate_anomaly(feat, par, meth) ==
    LoopOverKeys([st |-> "ok", prob |-> [r \in 1..NRows(feat) |-> 0]],
                 feat, par, meth, 1)

\* The feature tables of n rows.
FeatureTables(n) == [FeatureNames -> [1..n -> ValueSet]]

\* The params mappings: any subset of the features, each with its param.
ParamMaps ==
    UNION {[K -> [param : ParamSet, qlimit : {0}]] : K \in SUBSET FeatureNames}

\* The methods a caller may name; "max" stands for an unrecognized one.
Methods == {"produtorium", "min", "max"}

\* A call of estimate_anomaly waiting to run.
InitScore ==
    /\ pc = "score"
    /\ \E n \in 0..MaxScoreRows : features \in FeatureTables(n)
    /\ params \in ParamMaps
    /\ method \in Methods
    /\ prob = None
    /\ UnusedSplit /\ UnusedOpt /\ UnusedCalib /\ UnusedLoop

\* The call runs to its return or its exception.
EstimateAnomaly ==
    /\ pc = "score"
    /\ \E res \in {estimate_anomaly(features, params, method)} :
           /\ pc' = CASE res.st = "ok" -> "score_returned"
                      [] res.st = "none" -> "score_returned_none"
                      [] OTHER -> "score_raised"
           /\ prob' = IF res.st = "ok" THEN res.prob ELSE None
    /\ UNCHANGED <<features, params, method, splitVars, optVars, calibVars,
                   loopVars>>

NextScore == EstimateAnomaly

SpecScore == InitScore /\ [][NextScore]_vars

----------------------------------------------------------------------------
(* Claims about estimate_anomaly.                                          *)

\* The call of estimate_anomaly has ended, by a return or an exception.
ScoreEnded == pc \in {"score_returned", "score_returned_none", "score_raised"}

\* The features that contribute to row r: in params and not masked there.
Contributing(r) == {t \in DOMAIN params : features[t][r] # Masked}

RECURSIVE SumLog(_, _)
\* Sum over the features of T of the log-survival-probability of row r.
SumLog(T, r) ==
    IF T = {} THEN 0
    ELSE LET t == CHOOSE u \in T : TRUE
         IN  LogSurvival(features[t][r], params[t].param) + SumLog(T \ {t}, r)

\* C4: with the product method every row's score is the sum of the
\* log-survival-probabilities of the features in params that are not
\* missing for the row; a row with no such feature scores exactly 0; and
\* giving a row one more non-missing feature value never raises its score.
C4_ProductIsSumOverPresent ==
    (ScoreEnded /\ method = "produtorium") =>
        /\ pc = "score_returned"
        /\ Len(prob) = NRows(features)
        /\ \A r \in 1..Len(prob) :
              /\ prob[r] = SumLog(Contributing(r), r)
              /\ Contributing(r) = {} => prob[r] = 0
              /\ \A t \in DOMAIN params \ Contributing(r) :
                    \A v \in 0..MaxVal :
                       estimate_anomaly(
                           [features EXCEPT ![t][r] = v], params, method
                       ).prob[r] <= prob[r]

\* C4 witness: a product score of a table where one row has every
\* contributing feature missing and another row sums two features, one of
\* them clamped to the floor.
C4_Witness ==
    /\ pc = "score_returned" /\ method = "produtorium"
    /\ DOMAIN params = FeatureNames
    /\ \E r \in 1..Len(prob) : Contributing(r) = {} /\ prob[r] = 0
    /\ \E r \in 1..Len(prob) :
          /\ Contributing(r) = FeatureNames
          /\ prob[r] < LogFloor

\* C5: with the min method every row's score is the smallest
\* log-survival-probability among the features in params that are not
\* missing for the row, for tables of any length.
C5_MinIsSmallestOverPresent ==
    (ScoreEnded /\ method = "min") =>
        /\ pc = "score_returned"
        /\ \A r \in 1..Len(prob) :
              Contributing(r) # {} =>
                 /\ \E t \in Contributing(r) :
                       prob[r] = LogSurvival(features[t][r], params[t].param)
                 /\ \A t \in Contributing(r) :
                       prob[r] <= LogSurvival(features[t][r], params[t].param)

\* C6: a method that is neither the product nor the min method makes
\* estimate_anomaly fail with an error, whatever the table and the params.
C6_UnknownMethodRaises ==
    (ScoreEnded /\ method \notin {"produtorium", "min"}) => pc = "score_raised"

----------------------------------------------------------------------------
(* estimate_p_optimal.                                                     *)

\* The 0.1 step of the threshold grid, in units of 0.05.
GridStep == 2

\* The smallest member of a non-empty set of integers.
SetMin(S) == CHOOSE x \in S : \A y \in S : x <= y

\* P = -np.arange(0, -p_limit, 0.1) for p_limit < 0: the thresholds
\* 0, -0.1, -0.2, ... in this (descending) order, as long as they are
\* above p_limit.
ThresholdGrid(p_limit) ==
    [i \in 1..((-p_limit + GridStep - 1) \div GridStep) |->
        -((i - 1) * GridStep)]

\* err[i] of the loop of lines 136-140: the good rows scored below p plus
\* the bad rows scored above p.
ErrAt(pr, bf, p) ==
    Cardinality({r \in 1..Len(pr) : bf[r] = "true" /\ pr[r] < p})
      + Cardinality({r \in 1..Len(pr) : bf[r] = "false" /\ pr[r] > p})

\* Mutant: the last index of the smallest element instead of the first.
ArgMin_last(e) ==
    LET m == SetMin({e[i] : i \in 1..Len(e)})
    IN  CHOOSE i \in 1..Len(e) :
            e[i] = m /\ \A j \in (i + 1)..Len(e) : e[j] # m

\* err.argmin(): the first index of the smallest element.
ArgMin(e) ==
    LET m == SetMin({e[i] : i \in 1..Len(e)})
    IN  CHOOSE i \in 1..Len(e) :
            e[i] = m /\ \A j \in 1..(i - 1) : e[j] # m

\* Mutant: without a good row the grid is anchored at 0 instead of the
\* minimum of an empty array raising.
estimate_p_optimal_noraise(pr, bf) ==
    LET good    == {r \in 1..Len(pr) : bf[r] = "true"}
        p_limit == IF good = {} THEN -GridStep
                   ELSE SetMin({pr[r] : r \in good}) - GridStep
        P       == ThresholdGrid(p_limit)
        err     == [i \in 1..Len(P) |-> ErrAt(pr, bf, P[i])]
    IN  [st |-> "ok", p |-> P[ArgMin(err)],
         err |-> <<err[ArgMin(err)], Len(pr)>>]

\* estimate_p_optimal(prob, binflag).  prob[np.nonzero(binflag)].min()
\* raises ValueError when no row is labelled true.  The second value is
\* err.min()/prob.size as the pair <<numerator, denominator>>.
estimate_p_optimal(pr, bf) ==
    LET good    == {r \in 1..Len(pr) : bf[r] = "true"}
        p_limit == SetMin({pr[r] : r \in good}) - GridStep
        P       == ThresholdGrid(p_limit)
        err     == [i \in 1..Len(P) |-> ErrAt(pr, bf, P[i])]
    IN  IF good = {} THEN [st |-> "raised", p |-> 0, err |-> <<0, 0>>]
        ELSE [st |-> "ok", p |-> P[ArgMin(err)],
              err |-> <<err[ArgMin(err)], Len(pr)>>]

\* The scores a row may have: log-probabilities from -MaxScore to 0.
ScoreSet == (-MaxScore)..0

\* A call of estimate_p_optimal waiting to run on scores and a boolean
\* label of the same length.
InitOpt ==
    /\ pc = "opt"
    /\ \E n \in 0..MaxOptRows :
          /\ prob \in [1..n -> ScoreSet]
          /\ binflag \in [1..n -> {"true", "false"}]
    /\ p_optimal = None /\ test_err = None
    /\ features = None /\ params = None /\ method = None
    /\ UnusedSplit /\ UnusedCalib /\ UnusedLoop

\* The call runs to its return or its exception.
EstimatePOptimal ==
    /\ pc = "opt"
    /\ \E res \in {estimate_p_optimal(prob, binflag)} :
           IF res.st = "ok"
           THEN /\ pc' = "opt_returned"
                /\ p_optimal' = res.p
                /\ test_err' = res.err
           ELSE /\ pc' = "opt_raised"
                /\ UNCHANGED <<p_optimal, test_err>>
    /\ UNCHANGED <<features, params, method, prob, binflag, splitVars,
                   calibVars, loopVars>>

NextOpt == EstimatePOptimal

SpecOpt == InitOpt /\ [][NextOpt]_vars

----------------------------------------------------------------------------
(* Claims about estimate_p_optimal.                                        *)

\* The cost of threshold p on the scored rows: label true and score < p,
\* or label false and score > p.
Cost(p) ==
    Cardinality({r \in 1..Len(prob) :
                    \/ binflag[r] = "true" /\ prob[r] < p
                    \/ binflag[r] = "false" /\ prob[r] > p})

\* The grid candidates: the multiples of the step from 0 down, above
\* p_limit = (smallest score of a row labelled true) - step.
Candidates ==
    LET lowest == SetMin({prob[r] : r \in {q \in 1..Len(prob) :
                                              binflag[q] = "true"}})
    IN  {p \in (lowest - GridStep)..0 :
            p > lowest - GridStep /\ p % GridStep = 0}

\* C3 as stated: the returned threshold has minimal cost among the
\* candidates, and among the candidates of minimal cost it is the most
\* negative one.
C3_MinimalCostMostNegative ==
    pc = "opt_returned" =>
        /\ p_optimal \in Candidates
        /\ \A p \in Candidates : Cost(p_optimal) <= Cost(p)
        /\ \A p \in Candidates : Cost(p) = Cost(p_optimal) => p_optimal <= p

\* C3 amended: the returned threshold has minimal cost among the
\* candidates, and among the candidates of minimal cost it is the least
\* negative one (the first in the order 0, -0.1, -0.2, ... of the grid).
C3_MinimalCostLeastNegative ==
    pc = "opt_returned" =>
        /\ p_optimal \in Candidates
        /\ \A p \in Candidates : Cost(p_optimal) <= Cost(p)
        /\ \A p \in Candidates : Cost(p) = Cost(p_optimal) => p_optimal >= p

\* C3 witness: a returned threshold below 0 that shares its minimal cost
\* with a more negative candidate.
C3_Witness ==
    /\ pc = "opt_returned"
    /\ p_optimal < 0
    /\ \E p \in Candidates : p < p_optimal /\ Cost(p) = Cost(p_optimal)
    /\ \E p \in Candidates : Cost(p) > Cost(p_optimal)

----------------------------------------------------------------------------
(* combined_flag, fit_tests and calibrate4flags.                           *)

\* The largest member of a non-empty set of integers.
SetMax(S) == CHOOSE x \in S : \A y \in S : x >= y

\* cotede.misc.combined_flag: per row the worst (largest) code over the
\* tests of the table, masked only when every test is masked there.
combined_flag(tbl) ==
    LET n == Len(tbl[CHOOSE c \in DOMAIN tbl : TRUE])
    IN  [r \in 1..n |->
            LET codes == {tbl[c][r] : c \in DOMAIN tbl} \ {Masked}
            IN  IF codes = {} THEN Masked ELSE SetMax(codes)]

RECURSIVE SortedValues(_, _)
\* The values of column col at the rows of R, in ascending order.
SortedValues(col, R) ==
    IF R = {} THEN <<>>
    ELSE LET r == CHOOSE x \in R : \A y \in R : col[x] <= col[y]
         IN  <<col[r]>> \o SortedValues(col, R \ {r})

\* samp = features[test][ind & np.isfinite(features[test])], sorted.
Sample(col, ind) == SortedValues(col, {r \in ind : col[r] # Masked})

\* q = 0.90 as a number of tenths.
q_tenths == 9

\* Ten times samp.quantile(q) of a sorted non-empty sample: the linear
\* interpolation at position q (n - 1) between the two nearest values.
Quantile10(samp) ==
    LET pos  == q_tenths * (Len(samp) - 1)
        k    == (pos \div 10) + 1
        frac == pos % 10
    IN  IF frac = 0 THEN 10 * samp[k]
        ELSE 10 * samp[k] + frac * (samp[k + 1] - samp[k])

\* ind_top = samp > samp.quantile(q): the tail of the sample.  The
\* quantile of an empty sample is nan and nothing is above it.
TopTail(samp) ==
    IF Len(samp) = 0 THEN {}
    ELSE {samp[k] : k \in {j \in 1..Len(samp) : 10 * samp[j] > Quantile10(samp)}}

\* fit_tests(features[ind], q): a feature gets parameters when its tail is
\* not empty.  fit[t] is the vector that exponweib.fit returns for the tail
\* of feature t; qlimit is kept in tenths.
fit_tests(feat, ind, fit) ==
    [t \in {u \in DOMAIN feat : TopTail(Sample(feat[u], ind)) # {}} |->
        [param |-> fit[t], qlimit |-> Quantile10(Sample(feat[t], ind))]]

\* a[ind] for a boolean index ind: the entries of a at the rows of ind, in
\* row order.
Take(a, ind) ==
    LET rows == NonZero(ind, Len(a))
    IN  [k \in 1..Len(rows) |-> a[rows[k]]]

\* (prob < p_optimal) & binflags, a masked boolean array.
FalseNegative(pr, p, bf) ==
    [r \in 1..Len(bf) |->
        IF bf[r] = "masked" THEN "masked"
        ELSE IF pr[r] < p /\ bf[r] = "true" THEN "true" ELSE "false"]

\* (prob > p_optimal) & ~binflags, a masked boolean array.
FalsePositive(pr, p, bf) ==
    [r \in 1..Len(bf) |->
        IF bf[r] = "masked" THEN "masked"
        ELSE IF pr[r] > p /\ bf[r] = "false" THEN "true" ELSE "false"]

\* false_positive | false_negative, a masked boolean array.
MaskedOr(a, b) ==
    [r \in 1..Len(a) |->
        IF a[r] = "masked" \/ b[r] = "masked" THEN "masked"
        ELSE IF a[r] = "true" \/ b[r] = "true" THEN "true" ELSE "false"]

\* Mutant: the mistakes are counted over all rows, not over the err group.
CountMistakes_allrows(mk, ind) ==
    Cardinality({r \in 1..Len(mk) : mk[r] = "true"})

\* np.nonzero(mistake[ind])[0].shape[0]: the rows of ind that are mistakes.
CountMistakes(mk, ind) ==
    Cardinality({r \in ind : mk[r] = "true"})

\* The index sets that split_data_groups(f) may return: one for every pair
\* of permutations it may draw.
Splits(f) ==
    {split_data_groups(f, perm_good, perm_bad) :
        perm_good \in permutation(1..Cardinality(GoodRows(f))),
        perm_bad \in permutation(1..Cardinality(BadRows(f)))}

\* The body of calibrate4flags (lines 182-205) when split_data_groups
\* returns idx and exponweib.fit returns the vectors fit.  st is "raised"
\* when estimate_p_optimal raises.  err_ratio is the pair <<n_err, size of
\* the err group>>; a denominator 0 stands for the undefined quotient.
Calibration(tbl, feat, idx, fit) ==
    LET par  == fit_tests(feat, idx.fit, fit)
        pr   == estimate_anomaly(feat, par, "produtorium").prob
        bf   == flags2bin(combined_flag(tbl))
        opt  == estimate_p_optimal(Take(pr, idx.test), Take(bf, idx.test))
        fn   == FalseNegative(pr, opt.p, bf)
        fp   == FalsePositive(pr, opt.p, bf)
        nerr == CountMistakes(MaskedOr(fp, fn), idx.err)
    IN  [st |-> opt.st, indices |-> idx, params |-> par, prob |-> pr,
         binflags |-> bf, p_optimal |-> opt.p, test_err |-> opt.err,
         false_negative |-> fn, false_positive |-> fp,
         mistake |-> MaskedOr(fp, fn),
         n_err |-> nerr, err_ratio |-> <<nerr, Cardinality(idx.err)>>]

\* The outcomes of the calibration of a flag table and a feature table:
\* one for every result of split_data_groups and every vector that
\* exponweib.fit may return.
Calibrations(tbl, feat) ==
    {Calibration(tbl, feat, idx, fit) :
        idx \in Splits(combined_flag(tbl)),
        fit \in [DOMAIN feat -> ParamSet]}

\* The tests of the flag table given to the calibration.
RuleTests == {"gradient"}

\* The features of the feature table given to the calibration.
CalFeatures == {"gradient"}

\* The flag codes of the calibration inputs.
CalFlagCodes == {Masked, 1, 4}

\* A call of calibrate4flags waiting to run on a flag table and a feature
\* table with the same number of rows.
InitCalib ==
    /\ pc = "calib"
    /\ \E n \in 0..MaxCalRows :
          /\ flags \in [RuleTests -> [1..n -> CalFlagCodes]]
          /\ features \in [CalFeatures -> [1..n -> 0..MaxCalVal]]
    /\ false_negative = None /\ false_positive = None
    /\ n_err = None /\ err_ratio = None
    /\ params = None /\ method = None /\ prob = None
    /\ UnusedSplit /\ UnusedOpt /\ UnusedLoop

\* The call runs to its return or its exception.  When it raises, indices,
\* params and prob hold the locals assigned before the raise.
Calibrate4Flags ==
    /\ pc = "calib"
    /\ \E c \in Calibrations(flags, features) :
              /\ indices' = c.indices
              /\ params' = c.params
              /\ prob' = c.prob
              /\ IF c.st = "ok"
                 THEN /\ pc' = "calib_returned"
                      /\ binflag' = c.binflags
                      /\ p_optimal' = c.p_optimal
                      /\ test_err' = c.test_err
                      /\ false_negative' = c.false_negative
                      /\ false_positive' = c.false_positive
                      /\ n_err' = c.n_err
                      /\ err_ratio' = c.err_ratio
                 ELSE /\ pc' = "calib_raised"
                      /\ UNCHANGED <<optVars, false_negative, false_positive,
                                     n_err, err_ratio>>
    /\ UNCHANGED <<flag, features, method, flags, loopVars>>

NextCalib == Calibrate4Flags

SpecCalib == InitCalib /\ [][NextCalib]_vars

----------------------------------------------------------------------------
(* Claims about calibrate4flags.                                           *)

\* The rows of the err group that are false positive or false negative at
\* the returned threshold.
ErrMistakes ==
    {r \in indices.err :
        \/ binflag[r] = "true" /\ prob[r] < p_optimal
        \/ binflag[r] = "false" /\ prob[r] > p_optimal}

C8_WitnessEmptyErr ==
    /\ pc = "calib_raised"
    /\ indices.err = {}
    /\ indices.test # {}

----------------------------------------------------------------------------
(* human_calibrate_mistakes.                                               *)

\* np.absolute.
Abs(x) == IF x < 0 THEN -x ELSE x

RECURSIVE ArgSortFrom(_, _)
\* The positions of R ordered by their value in d, equal values in
\* position order.
ArgSortFrom(d, R) ==
    IF R = {} THEN <<>>
    ELSE LET k == CHOOSE x \in R :
                     \A y \in R : d[x] < d[y] \/ (d[x] = d[y] /\ x <= y)
         IN  <<k>> \o ArgSortFrom(d, R \ {k})

\* derr.argsort(): the positions of d in ascending order of value.
argsort(d) == ArgSortFrom(d, 1..Len(d))

RECURSIVE unique(_)
\* Series.unique(): the values of a sequence in order of first appearance.
unique(seq) ==
    IF seq = <<>> THEN <<>>
    ELSE LET front == unique(SubSeq(seq, 1, Len(seq) - 1))
             last  == seq[Len(seq)]
         IN  IF \E k \in 1..Len(front) : front[k] = last THEN front
             ELSE Append(front, last)

\* Lines 445-449.  derr has one entry per mistake row, ind_toeval lists the
\* mistake rows not marked doubt, and the positions derr.argsort() index
\* the latter: a position beyond its length raises IndexError.
RankProfiles(pr, p, mk, dbt, pid) ==
    LET mrows      == NonZero({r \in 1..Len(mk) : mk[r] = "true"}, Len(mk))
        derr       == [k \in 1..Len(mrows) |-> Abs(pr[mrows[k]] - p)]
        ind_toeval == NonZero({r \in 1..Len(mk) : mk[r] = "true" /\ r \notin dbt},
                              Len(mk))
        order      == argsort(derr)
    IN  IF \E k \in 1..Len(order) : order[k] > Len(ind_toeval)
        THEN [st |-> "raised", ids |-> <<>>]
        ELSE [st |-> "ok",
              ids |-> unique([k \in 1..Len(order) |->
                                 pid[ind_toeval[order[k]]]])]

\* profileids[:3]: the number of profiles presented in one iteration.
ProfilesPerIteration == 3

\* The decisions the reviewer may return for one row.
Decisions == {"good", "bad", "doubt"}

\* Lines 468 and 470: the 'human' column after the decisions h for the
\* rows of one profile are merged.
MergeHuman(human, h) ==
    [r \in 1..Len(human) |->
        IF r \in DOMAIN h /\ h[r] = "good" THEN 1
        ELSE IF r \in DOMAIN h /\ h[r] = "bad" THEN 4
        ELSE human[r]]

\* The flag tables given to the refinement loop: five rows flagged by one
\* rule-based test, all good, one bad, or three bad.
LoopFlagTables ==
    {[gradient |-> <<1, 1, 1, 1, 1>>],
     [gradient |-> <<1, 4, 1, 1, 1>>],
     [gradient |-> <<4, 4, 4, 1, 1>>]}

\* The feature tables given to the refinement loop: one feature over the
\* same five rows.
LoopFeatureTables ==
    {[gradient |-> <<0, 0, 0, 0, 0>>],
     [gradient |-> <<0, 0, 0, 0, 1>>],
     [gradient |-> <<1, 0, 0, 0, 1>>],
     [gradient |-> <<0, 1, 0, 1, 0>>]}

\* data['profileid']: the profile of each of the five rows.
ProfileLayouts == {<<1, 1, 2, 3, 4>>, <<1, 1, 2, 2, 3>>}

\* human_calibrate_mistakes is called on the flags, features and profile
\* ids of the collection, for some number of iterations.
InitLoop ==
    /\ pc = "hcm"
    /\ flags \in LoopFlagTables
    /\ features \in LoopFeatureTables
    /\ data \in ProfileLayouts
    /\ niter \in 0..MaxIter
    /\ iter = None /\ doubt = None /\ mistake = None /\ profileids = None
    /\ error_log = None
    /\ false_negative = None /\ false_positive = None
    /\ n_err = None /\ err_ratio = None
    /\ params = None /\ method = None /\ prob = None
    /\ UnusedSplit /\ UnusedOpt

\* Line 398: the call of calibrate4flags whose result is not used; it
\* returns or raises.
FirstCalibration ==
    /\ pc = "hcm"
    /\ \E c \in Calibrations(flags, features) :
          pc' = IF c.st = "ok" THEN "hcm_calibrated" ELSE "hcm_raised"
    /\ UNCHANGED <<splitVars, scoreVars, optVars, calibVars, loopVars>>

\* Lines 395 and 401-433: the first calibration in line, the first entry
\* of the error log, the 'human' column and the doubt mask.
InitialPipeline ==
    /\ pc = "hcm_calibrated"
    /\ \E c \in Calibrations(flags, features) :
              /\ binflag' = c.binflags
              /\ indices' = c.indices
              /\ params' = c.params
              /\ prob' = c.prob
              /\ IF c.st = "ok"
                 THEN /\ pc' = "loop"
                      /\ p_optimal' = c.p_optimal
                      /\ test_err' = c.test_err
                      /\ false_negative' = c.false_negative
                      /\ false_positive' = c.false_positive
                      /\ mistake' = c.mistake
                      /\ n_err' = c.n_err
                      /\ err_ratio' = c.err_ratio
                      /\ error_log' = <<[err |-> c.n_err,
                                         err_ratio |-> c.err_ratio,
                                         p_optimal |-> c.p_optimal]>>
                      /\ flags' = [t \in DOMAIN flags \cup {"human"} |->
                                     IF t = "human"
                                     THEN [r \in 1..Len(c.binflags) |-> 0]
                                     ELSE flags[t]]
                      /\ doubt' = {}
                      /\ iter' = 0
                      /\ profileids' = <<>>
                 ELSE /\ pc' = "hcm_raised"
                      /\ UNCHANGED <<p_optimal, test_err, false_negative,
                                     false_positive, mistake, n_err, err_ratio,
                                     error_log, flags, doubt, iter, profileids>>
    /\ UNCHANGED <<flag, features, method, data, niter>>

\* Lines 436-455: an iteration starts; the mistakes are ranked and the
\* first profiles are queued for review.
RankMistakes ==
    /\ pc = "loop"
    /\ iter < niter
    /\ \E rk \in {RankProfiles(prob, p_optimal, mistake, doubt, data)} :
           IF rk.st = "ok"
           THEN /\ pc' = "review"
                /\ profileids' =
                      SubSeq(rk.ids, 1,
                             IF Len(rk.ids) < ProfilesPerIteration
                             THEN Len(rk.ids) ELSE ProfilesPerIteration)
           ELSE /\ pc' = "loop_raised"
                /\ UNCHANGED profileids
    /\ UNCHANGED <<splitVars, scoreVars, optVars, calibVars, data, niter, iter,
                   doubt, mistake, error_log>>

\* Lines 456-472: the next queued profile is presented; the reviewer
\* answers with one decision per row of the profile and the decisions are
\* merged.
ReviewProfile ==
    /\ pc = "review"
    /\ profileids # <<>>
    /\ LET pid   == Head(profileids)
           ind_p == {r \in 1..Len(data) : data[r] = pid}
       IN  \E h \in [ind_p -> Decisions] :
              /\ mistake' = [r \in 1..Len(mistake) |->
                               IF r \in doubt THEN "masked" ELSE mistake[r]]
              /\ flags' = [flags EXCEPT !["human"] = MergeHuman(@, h)]
              /\ doubt' = doubt \cup {r \in ind_p : h[r] = "doubt"}
    /\ profileids' = Tail(profileids)
    /\ UNCHANGED <<pc, splitVars, scoreVars, optVars, false_negative,
                   false_positive, n_err, err_ratio, data, niter, iter,
                   error_log>>

\* Lines 476-500: after the last queued profile the labels, the groups,
\* the fit, the scores, the threshold and the mistakes are recomputed and
\* an entry is appended to the error log; n_err and err_ratio are the
\* variables assigned at lines 415-416.
Recalibrate ==
    /\ pc = "review"
    /\ profileids = <<>>
    /\ \E c \in Calibrations(flags, features) :
              /\ binflag' = c.binflags
              /\ indices' = c.indices
              /\ params' = c.params
              /\ prob' = c.prob
              /\ IF c.st = "ok"
                 THEN /\ pc' = "loop"
                      /\ p_optimal' = c.p_optimal
                      /\ test_err' = c.test_err
                      /\ false_negative' = c.false_negative
                      /\ false_positive' = c.false_positive
                      /\ mistake' = c.mistake
                      /\ error_log' = Append(error_log,
                                             [err |-> n_err,
                                              err_ratio |-> err_ratio,
                                              p_optimal |-> c.p_optimal])
                      /\ iter' = iter + 1
                 ELSE /\ pc' = "loop_raised"
                      /\ UNCHANGED <<p_optimal, test_err, false_negative,
                                     false_positive, mistake, error_log, iter>>
    /\ UNCHANGED <<flag, features, method, flags, n_err, err_ratio, data,
                   niter, doubt, profileids>>

\* Lines 502-503: after the last iteration the result is returned.
ReturnResult ==
    /\ pc = "loop"
    /\ iter = niter
    /\ pc' = "hcm_returned"
    /\ UNCHANGED <<splitVars, scoreVars, optVars, calibVars, loopVars>>

NextLoop ==
    \/ FirstCalibration
    \/ InitialPipeline
    \/ RankMistakes
    \/ ReviewProfile
    \/ Recalibrate
    \/ ReturnResult

SpecLoop == InitLoop /\ [][NextLoop]_vars

----------------------------------------------------------------------------
(* Claims about human_calibrate_mistakes.                                  *)

\* C9: after the decisions of an iteration are merged and the label is
\* recomputed, every row with a human decision has the label of that
\* decision: true when the 'human' flag is 1 (good), false when it is 4
\* (bad), whatever the rule-based flags of the row.
C9_HumanDecisionOverrides ==
    (pc \in {"loop", "hcm_returned"} /\ iter >= 1) =>
        \A r \in 1..Len(binflag) :
            /\ flags["human"][r] = 1 => binflag[r] = "true"
            /\ flags["human"][r] = 4 => binflag[r] = "false"

\* C10: the refinement loop stops only by returning after niter executions
\* of its body, one entry of the error log per iteration after the first
\* entry.
C10_RunsExactlyNiterIterations ==
    pc \in {"hcm_returned", "loop_raised"} =>
        /\ pc = "hcm_returned"
        /\ iter = niter
        /\ Len(error_log) = niter + 1

\* Part of C10 that the code keeps: a step never shortens the error log
\* nor changes an entry it already holds, and only the end of an
\* iteration adds an entry.
C10_LogAppendOnly ==
    [][(pc \in {"loop", "review"}) =>
          (/\ Len(error_log') >= Len(error_log)
           /\ SubSeq(error_log', 1, Len(error_log)) = error_log
           /\ Len(error_log') = Len(error_log) + (iter' - iter))]_vars

\* Part of C10 that the code keeps: an iteration with no mistake row is
\* still executed.
C10_NoEarlyExit ==
    [][(pc = "loop" /\ iter < niter
          /\ \A r \in 1..Len(mistake) : mistake[r] # "true")
        => pc' = "review"]_vars

\* C11: the entry appended to the error log at the end of an iteration is
\* the snapshot of the recalibration of that iteration: its error count is
\* the number of mistakes of the new mistake mask in the new err group, its
\* error rate is that count over the size of the new err group, and its
\* threshold is the new threshold.
C11_LogEntryIsSnapshot ==
    (pc = "loop" /\ iter >= 1) =>
        LET entry == error_log[Len(error_log)]
        IN  /\ entry.err = CountMistakes(mistake, indices.err)
            /\ entry.err_ratio = <<entry.err, Cardinality(indices.err)>>
            /\ entry.p_optimal = p_optimal

\* Part of C11 that the code keeps: the threshold of the appended entry is
\* the threshold of the recalibration of that iteration.
C11_ThresholdIsFresh ==
    (pc = "loop" /\ iter >= 1) =>
        error_log[Len(error_log)].p_optimal = p_optimal

\* What the code does in place of C11: the error count and the error rate
\* of every entry are those of the first entry.
C11_CountAndRateOfFirstEntry ==
    pc \in {"loop", "review", "hcm_returned", "loop_raised"} =>
        \A k \in 1..Len(error_log) :
            /\ error_log[k].err = error_log[1].err
            /\ error_log[k].err_ratio = error_log[1].err_ratio

\* The current mistake rows not marked doubt.
C12_RowsToReview ==
    {r \in 1..Len(mistake) : mistake[r] = "true" /\ r \notin doubt}

\* The orderings of the rows to review in ascending |score - threshold|,
\* rows at the same distance in any order.
C12_AscendingOrders ==
    {s \in permutation(C12_RowsToReview) :
        \A k \in 1..(Len(s) - 1) :
            Abs(prob[s[k]] - p_optimal) <= Abs(prob[s[k + 1]] - p_optimal)}

\* The profiles of an ordering of rows in order of first appearance, at
\* most three of them.
C12_Presented(s) ==
    LET ids == unique([k \in 1..Len(s) |-> data[s[k]]])
    IN  SubSeq(ids, 1, IF Len(ids) < 3 THEN Len(ids) ELSE 3)

\* C12: in every iteration, rows marked doubt earlier or not, the ranking
\* succeeds and the profiles queued for review are the first (at most 3)
\* profiles of the current mistake rows not marked doubt, each row ranked
\* by its own |score - threshold| in ascending order.
C12_RanksMistakesNotDoubt ==
    [][(pc = "loop" /\ iter < niter) =>
          (/\ pc' = "review"
           /\ \E s \in C12_AscendingOrders :
                 profileids' = C12_Presented(s))]_vars

\* Part of C12 that the code keeps: when no row marked doubt is a current
\* mistake the ranking is the one of C12.
C12_RanksWhenNoDoubtMistake ==
    [][(/\ pc = "loop" /\ iter < niter
        /\ \A r \in doubt : mistake[r] # "true") =>
          (/\ pc' = "review"
           /\ \E s \in C12_AscendingOrders :
                 profileids' = C12_Presented(s))]_vars

\* What the code does in place of C12: when a row marked doubt is a current
\* mistake the ranking raises and no profile is presented.
C12_RaisesWhenDoubtMistake ==
    [][(/\ pc = "loop" /\ iter < niter
        /\ \E r \in doubt : mistake[r] = "true") =>
          pc' = "loop_raised"]_vars

====
